---- MODULE Spec2Model ----
(***************************************************************************)
(* BugBoard AI: the client SDK's stuck-agent detector (class               *)
(* BugBoardAgent): retry-detection state, tracking calls, the stuck check, *)
(* and the fire-and-forget automatic report with its asynchronous          *)
(* completion.                                                             *)
(***************************************************************************)
EXTENDS Integers, Sequences, FiniteSets, TLC

\* ------------------------------------------------------------------ bounds
\* The clock stops advancing after MaxTicks pauses.
MaxTicks == 1
\* Cap of the buildFailures counter.
MaxFailures == 4
\* Automatic reports in flight at once.
MaxInFlight == 2
\* Concurrent POST /:id/upvote requests on one bug.
MaxUpvoters == 3
\* Concurrent POST /bugs/:id/payout requests on one bug.
MaxPayoutRequests == 2
\* Concurrent DELETE /api/admin/roles/[id] requests.
MaxRoleDeletes == 2

\* ------------------------------------------------------- program constants
DefaultTimeoutMs == 300000
HistoryCap == 5
BuildFailureThreshold == 3

\* A pause of the agent between two calls, in ms.
Pause == 150
\* The texts an agent emits, and the timeouts a caller sets.
Texts == {"a", "b"}
Timeouts == {-1, 100}
\* Time Date.now() may advance between its two reads inside one trackOutput.
CallDelays == {0, Pause}

TimedOut == "Agent timed out"
OutputLoop == "Agent stuck in output loop"
BuildFailures == "Multiple build failures detected"
None == "none"
Separator == "\n\n--- Next Output ---\n\n"
AutoInput == "Auto-detected issue"

\* options.apiUrl || 'https://bugboard.ai/api', as its parts
ApiUrl == <<"https://bugboard.ai", "/api">>
\* Identifiers the Report Sink answers with.
Ids == {"42"}
NoResult == [id |-> None, url |-> <<>>]
NoRequest == [input |-> None, logs |-> None, error |-> None]

VARIABLES
  retryState,   \* [outputs, buildFailures, lastActivity]
  timeoutMs,    \* the inactivity window
  now,          \* Date.now()
  inflight,     \* pending axios.post promises: [auto: how many, manual: awaited or not]
  last,         \* the last operation and what it did
  upvotes,      \* bugs.upvotes of the bug: [atStart, value]
  upvoteReq,    \* the POST /:id/upvote requests: [pc, read, status]
  bug,          \* the bug's row for the admin routes: [status, payout_status]
  payouts,      \* the payouts table: the records inserted
  payoutReq,    \* the POST /bugs/:id/payout requests: [pc, status]
  roleTables,   \* [roles, role_permissions, user_roles], by role name
  putUserReq,   \* the PUT /api/admin/users/[id] request: [pc, role_ids]
  deleteReq     \* the DELETE /api/admin/roles/[id] requests: [pc, id, status]

agent == <<retryState, timeoutMs, now, inflight, last>>
bugRoutes == <<upvotes, upvoteReq>>
adminRoutes == <<bug, payouts, payoutReq>>
roleRoutes == <<roleTables, putUserReq, deleteReq>>
vars == <<agent, bugRoutes, adminRoutes, roleRoutes>>

\* ----------------------------------------------------------------- helpers
\* Array.prototype.join
RECURSIVE Join(_, _)
Join(seq, sep) ==
  IF seq = <<>> THEN ""
  ELSE IF Len(seq) = 1 THEN seq[1]
  ELSE seq[1] \o sep \o Join(Tail(seq), sep)

\* Array.prototype.slice(-n)
SliceLast(seq, n) ==
  IF Len(seq) <= n THEN seq ELSE SubSeq(seq, Len(seq) - n + 1, Len(seq))

\* Mutant: the history is never trimmed.
PushOutput_NoShift(outputs, output) == Append(outputs, output)

\* Mutant: past the cap the newest entry is dropped instead of the oldest.
PushOutput_DropsNewest(outputs, output) ==
  LET pushed == Append(outputs, output)
  IN IF Len(pushed) > HistoryCap THEN SubSeq(pushed, 1, HistoryCap) ELSE pushed

\* outputs.push(output), then shift() once past the cap
PushOutput(outputs, output) ==
  LET pushed == Append(outputs, output)
  IN IF Len(pushed) > HistoryCap THEN Tail(pushed) ELSE pushed

\* Mutant: the reset forgets to clear the build-failure counter.
\* Mutant: each reset drops the oldest output only.
EmptyState_DropsOldest(t) ==
  [outputs |-> IF retryState.outputs = <<>> THEN <<>>
               ELSE Tail(retryState.outputs),
   buildFailures |-> 0, lastActivity |-> t]

EmptyState_KeepsFailures(t) ==
  [outputs |-> <<>>, buildFailures |-> retryState.buildFailures, lastActivity |-> t]

\* resetRetryDetection's new state
EmptyState(t) == [outputs |-> <<>>, buildFailures |-> 0, lastActivity |-> t]

\* Mutant: the repetition check runs first and the timeout check after it.
StuckReason_LoopFirst(st, t) ==
  IF Len(st.outputs) >= 3
       /\ SliceLast(st.outputs, 3)[1] = SliceLast(st.outputs, 3)[2]
       /\ SliceLast(st.outputs, 3)[2] = SliceLast(st.outputs, 3)[3]
  THEN OutputLoop
  ELSE IF t - st.lastActivity > timeoutMs THEN TimedOut ELSE None

\* Mutant: the repetition check waits for four entries.
StuckReason_NeedsFour(st, t) ==
  IF t - st.lastActivity > timeoutMs THEN TimedOut
  ELSE IF Len(st.outputs) >= 4
       THEN LET lastThree == SliceLast(st.outputs, 3)
            IN IF lastThree[1] = lastThree[2] /\ lastThree[2] = lastThree[3]
               THEN OutputLoop ELSE None
       ELSE None

\* Mutant: the repetition check compares the last two entries only.
StuckReason_LastTwo(st, t) ==
  IF t - st.lastActivity > timeoutMs THEN TimedOut
  ELSE IF Len(st.outputs) >= 3
       THEN LET lastThree == SliceLast(st.outputs, 3)
            IN IF lastThree[2] = lastThree[3] THEN OutputLoop ELSE None
       ELSE None

\* checkForStuckAgent: the reason it escalates with, read at clock value t
StuckReason(st, t) ==
  IF t - st.lastActivity > timeoutMs THEN TimedOut
  ELSE IF Len(st.outputs) >= 3
       THEN LET lastThree == SliceLast(st.outputs, 3)
            IN IF lastThree[1] = lastThree[2] /\ lastThree[2] = lastThree[3]
               THEN OutputLoop ELSE None
       ELSE None

\* Mutant: only the call that reaches the threshold escalates.
BuildReason_OnlyAtThree(st) ==
  IF st.buildFailures = BuildFailureThreshold THEN BuildFailures ELSE None

\* Mutant: the threshold test is strict.
BuildReason_Strict(st) ==
  IF st.buildFailures > BuildFailureThreshold THEN BuildFailures ELSE None

\* trackBuildFailure's threshold test
BuildReason(st) ==
  IF st.buildFailures >= BuildFailureThreshold THEN BuildFailures ELSE None

\* Mutant: the outputs are joined without the separator.
AutoRequest_NoSeparator(st, reason) ==
  [input |-> AutoInput,
   logs  |-> Join(st.outputs, ""),
   error |-> "Auto-reported: " \o reason \o ". Build failures: "
                \o ToString(st.buildFailures)]

\* autoReportBug up to its await: the request handed to reportBug and axios.post
AutoRequest(st, reason) ==
  [input |-> AutoInput,
   logs  |-> Join(st.outputs, Separator),
   error |-> "Auto-reported: " \o reason \o ". Build failures: "
                \o ToString(st.buildFailures)]

\* Mutant: no submission starts while an automatic report is pending.
Submit_Deduplicates(reason) ==
  IF reason = None \/ inflight.auto > 0 THEN inflight
  ELSE [inflight EXCEPT !.auto = @ + 1]

\* autoReportBug(reason), when the check gave a reason: one more pending promise
Submit(reason) ==
  IF reason = None THEN inflight ELSE [inflight EXCEPT !.auto = @ + 1]

\* Mutant: a failed report clears the build failure counter.
AfterReport_FailureClearsCounter(ok, st, t) ==
  IF ok THEN EmptyState(t) ELSE [st EXCEPT !.buildFailures = 0]

\* Mutant: the reset after a successful report keeps the newest output.
AfterReport_KeepsNewest(ok, st, t) ==
  IF ok THEN [EmptyState(t) EXCEPT !.outputs = SliceLast(st.outputs, 1)]
  ELSE st

\* Mutant: the reset sits in a finally block and runs on failure too.
AfterReport_AlwaysReset(ok, st, t) == EmptyState(t)

\* Mutant: the reset after a successful report is missing.
AfterReport_NeverReset(ok, st, t) == st

\* Mutant: the reset after a successful report clears the counter only.
AfterReport_KeepsOutputs(ok, st, t) ==
  IF ok THEN [st EXCEPT !.buildFailures = 0, !.lastActivity = t] ELSE st

\* autoReportBug after its await: reset on success, nothing on failure
AfterReport(ok, st, t) == IF ok THEN EmptyState(t) ELSE st

\* String.prototype.replace(part, ''): the first occurrence is removed
RECURSIVE RemoveFirst(_, _)
RemoveFirst(parts, part) ==
  IF parts = <<>> THEN <<>>
  ELSE IF Head(parts) = part THEN Tail(parts)
  ELSE <<Head(parts)>> \o RemoveFirst(Tail(parts), part)

\* Mutant: the result carries the identifier in its url only.
ReportBugResult_NoId(id) ==
  [id |-> None, url |-> RemoveFirst(ApiUrl, "/api") \o <<"/bugs/", id>>]

\* reportBug's return value for the sink's answer {id}
ReportBugResult(id) ==
  [id |-> id, url |-> RemoveFirst(ApiUrl, "/api") \o <<"/bugs/", id>>]

\* Mutant: reportBug logs the error and resolves.
ReportBugSettles_Swallows(ok) == "resolved"

\* reportBug's promise: resolved with the result, or the caught error rethrown
ReportBugSettles(ok) == IF ok THEN "resolved" ELSE "rejected"

\* Mutant: autoReportBug logs the error and rethrows it.
AutoReportSettles_Rethrows(ok) == ReportBugSettles(ok)

\* autoReportBug's promise: the rejection of the awaited reportBug is caught
AutoReportSettles(ok) ==
  IF ReportBugSettles(ok) = "rejected" THEN "resolved" ELSE "resolved"

\* How the call or the promise of operation op ends towards its caller.
Outcome(op, ok) ==
  IF op = "manualDone" THEN ReportBugSettles(ok)
  ELSE IF op = "autoDone" THEN AutoReportSettles(ok)
  ELSE "returned"

\* Whether operation l left a freshly emptied detection state.
Emptied(l) ==
  l.op \in {"new", "resetRetryDetection"} \/ (l.op = "autoDone" /\ l.ok)

\* Whether operation op reads Date.now() for lastActivity: the tracking
\* calls, and resetRetryDetection, called after a successful automatic report.
Stamps(op, ok) ==
  \/ op \in {"trackOutput", "trackBuildFailure", "resetRetryDetection"}
  \/ (op = "autoDone" /\ ok)

\* The record of an operation: its name, the automatic report it triggered,
\* the outcome of the submission it completed, the outputs and build failures
\* it found, and the operation before it when that one emptied the state;
\* the automatic reports pending when it began, how it ended towards its
\* caller, the time that elapsed inside it, the output it was given, the
\* request it handed to axios.post and the result it resolved with; the clock when it began, for
\* an operation that reads Date.now() for lastActivity, and for any other the
\* lastActivity it found; the timeoutMs it found (setTimeout: its argument).
Did(op, reason, ok) ==
  [op |-> op, reason |-> reason, ok |-> ok,
   before |-> [outputs |-> retryState.outputs,
               buildFailures |-> retryState.buildFailures],
   after |-> IF Emptied(last) THEN last.op ELSE "-",
   pending |-> inflight.auto,
   at |-> IF Stamps(op, ok) THEN now ELSE 0,
   activity |-> IF Stamps(op, ok) THEN 0 ELSE retryState.lastActivity,
   timeout |-> timeoutMs,
   outcome |-> Outcome(op, ok),
   elapsed |-> 0,
   output |-> None,
   request |-> NoRequest,
   result |-> NoResult]

\* The request a tracking call hands over, if it escalates.
Sent(reason, st) ==
  IF reason = None THEN NoRequest ELSE AutoRequest(st, reason)

\* ----------------------------------------------------------------- backend
\* The requests in flight against the backend.
Upvoters == 1..MaxUpvoters
PayoutRequesters == 1..MaxPayoutRequests
RoleDeleters == 1..MaxRoleDeletes

\* A bugs.upvotes column that holds no value.
Null == -1
\* bugData.upvotes || 0
OrZero(v) == IF v = Null \/ v = 0 THEN 0 ELSE v

\* bugs.status values, and the bug id that matches no row.
BugStatuses == {"open", "in_progress", "resolved"}
Missing == "missing"

\* ['super_admin', 'admin', 'moderator'].includes(existingRole.name)
BuiltInRoles == {"super_admin", "admin", "moderator"}
\* The roles of the deployment: one built-in, one custom.
RoleNames == {"admin", "tester"}

\* A request that has not reached the database yet.
NewRequest == [pc |-> "new", read |-> 0, status |-> 0]
Responded(code) == [pc |-> "done", read |-> 0, status |-> code]
NewDelete == [pc |-> "new", id |-> None, status |-> 0, assigned |-> FALSE]

\* The tables before any request, with the given rows.
BugRoutesAtRest(v) ==
  /\ upvotes = [atStart |-> v, value |-> v]
  /\ upvoteReq = [r \in Upvoters |-> NewRequest]

AdminRoutesAtRest(status) ==
  /\ bug = [status |-> status, payout_status |-> None]
  /\ payouts = {}
  /\ payoutReq = [r \in PayoutRequesters |-> NewRequest]

RoleRoutesAtRest(assigned) ==
  /\ roleTables = [roles |-> RoleNames, role_permissions |-> RoleNames,
                   user_roles |-> assigned]
  /\ putUserReq = [pc |-> "idle", role_ids |-> {}]
  /\ deleteReq = [r \in RoleDeleters |-> NewDelete]

\* -------------------------------------------------------------------- Init
\* The SDK instance as constructed.
AgentInit ==
  /\ retryState = [outputs |-> <<>>, buildFailures |-> 0, lastActivity |-> 0]
  /\ timeoutMs = DefaultTimeoutMs
  /\ now = 0
  /\ inflight = [auto |-> 0, manual |-> FALSE]
  /\ last = [op |-> "new", reason |-> None, ok |-> TRUE,
             before |-> [outputs |-> <<>>, buildFailures |-> 0], after |-> "-",
             at |-> 0, activity |-> 0, timeout |-> DefaultTimeoutMs,
             pending |-> 0, outcome |-> "returned", elapsed |-> 0,
             output |-> None, request |-> NoRequest, result |-> NoResult]

Init ==
  /\ AgentInit
  /\ BugRoutesAtRest(0)
  /\ AdminRoutesAtRest("open")
  /\ RoleRoutesAtRest({})

\* ----------------------------------------------------------------- actions
\* Mutant: a timer watches lastActivity and escalates on its own.
Tick_ActiveTimer ==
  /\ now + Pause <= MaxTicks * Pause
  /\ now' = now + Pause
  /\ inflight' = IF /\ now + Pause - retryState.lastActivity > timeoutMs
                    /\ inflight.auto < MaxInFlight
                 THEN [inflight EXCEPT !.auto = @ + 1] ELSE inflight
  /\ UNCHANGED <<retryState, timeoutMs, last>>

\* Time passes between two operations.
Tick ==
  /\ now + Pause <= MaxTicks * Pause
  /\ now' = now + Pause
  /\ UNCHANGED <<retryState, timeoutMs, inflight, last>>

\* Mutant: the stuck check runs before lastActivity is refreshed.
TrackOutput_ChecksBeforeRefresh(output, d) ==
  LET st == [retryState EXCEPT !.outputs = PushOutput(@, output),
                               !.lastActivity = now]
      reason == StuckReason([st EXCEPT !.lastActivity =
                                         retryState.lastActivity], now + d)
  IN /\ now + d <= MaxTicks * Pause
     /\ reason # None => inflight.auto < MaxInFlight
     /\ retryState' = st
     /\ now' = now + d
     /\ inflight' = Submit(reason)
     /\ last' = [Did("trackOutput", reason, TRUE)
                   EXCEPT !.elapsed = d, !.output = output,
                          !.request = Sent(reason, st)]
     /\ UNCHANGED timeoutMs

TrackOutput(output, d) ==
  LET st == [retryState EXCEPT !.outputs = PushOutput(@, output),
                               !.lastActivity = now]
      reason == StuckReason(st, now + d)
  IN /\ now + d <= MaxTicks * Pause
     /\ reason # None => inflight.auto < MaxInFlight
     /\ retryState' = st
     /\ now' = now + d
     /\ inflight' = Submit(reason)
     /\ last' = [Did("trackOutput", reason, TRUE)
                   EXCEPT !.elapsed = d, !.output = output,
                          !.request = Sent(reason, st)]
     /\ UNCHANGED timeoutMs

\* Mutant: the counter is cleared as soon as the call escalates.
TrackBuildFailure_ResetsOnReport ==
  LET st == [retryState EXCEPT !.buildFailures = @ + 1,
                               !.lastActivity = now]
      reason == BuildReason(st)
  IN /\ retryState.buildFailures < MaxFailures
     /\ reason # None => inflight.auto < MaxInFlight
     /\ retryState' = IF reason = None THEN st
                      ELSE [st EXCEPT !.buildFailures = 0]
     /\ inflight' = Submit(reason)
     /\ last' = [Did("trackBuildFailure", reason, TRUE)
                   EXCEPT !.request = Sent(reason, st)]
     /\ UNCHANGED <<timeoutMs, now>>

TrackBuildFailure ==
  LET st == [retryState EXCEPT !.buildFailures = @ + 1,
                               !.lastActivity = now]
      reason == BuildReason(st)
  IN /\ retryState.buildFailures < MaxFailures
     /\ reason # None => inflight.auto < MaxInFlight
     /\ retryState' = st
     /\ inflight' = Submit(reason)
     /\ last' = [Did("trackBuildFailure", reason, TRUE)
                   EXCEPT !.request = Sent(reason, st)]
     /\ UNCHANGED <<timeoutMs, now>>

\* Mutant: a reset abandons the automatic reports in flight.
ResetRetryDetection_Cancels ==
  /\ retryState' = EmptyState(now)
  /\ inflight' = [inflight EXCEPT !.auto = 0]
  /\ last' = Did("resetRetryDetection", None, TRUE)
  /\ UNCHANGED <<timeoutMs, now>>

ResetRetryDetection ==
  /\ retryState' = EmptyState(now)
  /\ last' = Did("resetRetryDetection", None, TRUE)
  /\ UNCHANGED <<timeoutMs, now, inflight>>

\* Mutant: setTimeout counts as activity.
SetTimeout_StampsActivity(ms) ==
  /\ timeoutMs' = ms
  /\ retryState' = [retryState EXCEPT !.lastActivity = now]
  /\ last' = [Did("setTimeout", None, TRUE) EXCEPT !.timeout = ms]
  /\ UNCHANGED <<now, inflight>>

SetTimeout(ms) ==
  /\ timeoutMs' = ms
  /\ last' = [Did("setTimeout", None, TRUE) EXCEPT !.timeout = ms]
  /\ UNCHANGED <<retryState, now, inflight>>

\* The embedding application calls reportBug and awaits it: one at a time.
ReportBug ==
  /\ ~inflight.manual
  /\ inflight' = [inflight EXCEPT !.manual = TRUE]
  /\ last' = Did("reportBug", None, TRUE)
  /\ UNCHANGED <<retryState, timeoutMs, now>>

\* The awaited axios.post of an automatic report settles: autoReportBug resumes.
AutoDone(ok) ==
  /\ inflight.auto > 0
  /\ inflight' = [inflight EXCEPT !.auto = @ - 1]
  /\ retryState' = AfterReport(ok, retryState, now)
  /\ last' = Did("autoDone", None, ok)
  /\ UNCHANGED <<timeoutMs, now>>

\* Mutant: a successful manual report resets the detection state too.
ManualDone_Resets(ok, id) ==
  /\ inflight.manual
  /\ inflight' = [inflight EXCEPT !.manual = FALSE]
  /\ retryState' = AfterReport(ok, retryState, now)
  /\ last' = [Did("manualDone", None, ok)
                EXCEPT !.result = IF ok THEN ReportBugResult(id) ELSE NoResult]
  /\ UNCHANGED <<timeoutMs, now>>

\* The awaited axios.post of a manual reportBug settles.
ManualDone(ok, id) ==
  /\ inflight.manual
  /\ inflight' = [inflight EXCEPT !.manual = FALSE]
  /\ last' = [Did("manualDone", None, ok)
                EXCEPT !.result = IF ok THEN ReportBugResult(id) ELSE NoResult]
  /\ UNCHANGED <<retryState, timeoutMs, now>>

server == <<bugRoutes, adminRoutes, roleRoutes>>

Next ==
  \/ Tick /\ UNCHANGED server
  \/ \E output \in Texts, d \in CallDelays :
       TrackOutput(output, d) /\ UNCHANGED server
  \/ TrackBuildFailure /\ UNCHANGED server
  \/ ResetRetryDetection /\ UNCHANGED server
  \/ \E ms \in Timeouts : SetTimeout(ms) /\ UNCHANGED server
  \/ ReportBug /\ UNCHANGED server
  \/ \E ok \in BOOLEAN : AutoDone(ok) /\ UNCHANGED server
  \/ \E ok \in BOOLEAN, id \in Ids : ManualDone(ok, id) /\ UNCHANGED server

Spec == Init /\ [][Next]_vars

\* ------------------------------------------------- POST /:id/upvote
\* The select of the current upvotes: the row read, or fetchError thrown.
UpvoteFetch(r, ok) ==
  /\ upvoteReq[r].pc = "new"
  /\ upvoteReq' = [upvoteReq EXCEPT ![r] =
                     IF ok THEN [pc |-> "fetched", read |-> upvotes.value,
                                 status |-> 0]
                     ELSE Responded(500)]
  /\ UNCHANGED upvotes

\* The update with the value read plus one: 200, or error thrown.
UpvoteUpdate(r, ok) ==
  /\ upvoteReq[r].pc = "fetched"
  /\ upvotes' = IF ok THEN [upvotes EXCEPT
                              !.value = OrZero(upvoteReq[r].read) + 1]
                ELSE upvotes
  /\ upvoteReq' = [upvoteReq EXCEPT ![r] =
                     Responded(IF ok THEN 200 ELSE 500)]

UpvoteInit ==
  /\ AgentInit
  /\ \E v \in {Null, 0} : BugRoutesAtRest(v)
  /\ AdminRoutesAtRest("open")
  /\ RoleRoutesAtRest({})

UpvoteNext ==
  \/ \E r \in Upvoters, ok \in BOOLEAN :
       UpvoteFetch(r, ok) /\ UNCHANGED <<agent, adminRoutes, roleRoutes>>
  \/ \E r \in Upvoters, ok \in BOOLEAN :
       UpvoteUpdate(r, ok) /\ UNCHANGED <<agent, adminRoutes, roleRoutes>>

UpvoteSpec == UpvoteInit /\ [][UpvoteNext]_vars

\* ------------------------------------- POST /bugs/:id/payout, PATCH /bugs/:id
\* Validation of the body, the select of the status and the tests on it.
PayoutFetch(r, valid, ok) ==
  /\ payoutReq[r].pc = "new"
  /\ payoutReq' = [payoutReq EXCEPT ![r] =
                     IF ~valid THEN Responded(400)
                     ELSE IF ~ok \/ bug.status = Missing THEN Responded(500)
                     ELSE IF bug.status # "resolved" THEN Responded(400)
                     ELSE [pc |-> "checked", read |-> 0, status |-> 0]]
  /\ UNCHANGED <<bug, payouts>>

\* The insert into payouts; the record keeps the bug's status at that moment.
PayoutInsert(r, ok) ==
  /\ payoutReq[r].pc = "checked"
  /\ payouts' = IF ok THEN payouts \cup {[by |-> r, bugStatus |-> bug.status]}
                ELSE payouts
  /\ payoutReq' = [payoutReq EXCEPT ![r] =
                     IF ok THEN [pc |-> "inserted", read |-> 0, status |-> 0]
                     ELSE Responded(500)]
  /\ UNCHANGED bug

\* The update of payout_status, its result unread, and the 201.
PayoutMark(r) ==
  /\ payoutReq[r].pc = "inserted"
  /\ bug' = IF bug.status = Missing THEN bug
            ELSE [bug EXCEPT !.payout_status = "pending"]
  /\ payoutReq' = [payoutReq EXCEPT ![r] = Responded(201)]
  /\ UNCHANGED payouts

\* PATCH /bugs/:id with a status, on a bug that exists.
PatchBug(status) ==
  /\ bug.status # Missing
  /\ bug' = [bug EXCEPT !.status = status]
  /\ UNCHANGED <<payouts, payoutReq>>

PayoutInit ==
  /\ AgentInit
  /\ BugRoutesAtRest(0)
  /\ \E status \in BugStatuses \cup {Missing} : AdminRoutesAtRest(status)
  /\ RoleRoutesAtRest({})

PayoutNext ==
  \/ \E r \in PayoutRequesters, valid \in BOOLEAN, ok \in BOOLEAN :
       PayoutFetch(r, valid, ok) /\ UNCHANGED <<agent, bugRoutes, roleRoutes>>
  \/ \E r \in PayoutRequesters, ok \in BOOLEAN :
       PayoutInsert(r, ok) /\ UNCHANGED <<agent, bugRoutes, roleRoutes>>
  \/ \E r \in PayoutRequesters :
       PayoutMark(r) /\ UNCHANGED <<agent, bugRoutes, roleRoutes>>
  \/ \E status \in BugStatuses :
       PatchBug(status) /\ UNCHANGED <<agent, bugRoutes, roleRoutes>>

PayoutSpec == PayoutInit /\ [][PayoutNext]_vars

\* ------------------- DELETE /api/admin/roles/[id], PUT /api/admin/users/[id]
\* getSession and the has_permission rpc: 401, 403, or on to the tables.
DeleteAuthorize(r, id, session, permitted) ==
  /\ deleteReq[r].pc = "new"
  /\ deleteReq' = [deleteReq EXCEPT ![r] =
                     IF ~session THEN [NewDelete EXCEPT !.pc = "done",
                                                        !.status = 401]
                     ELSE IF ~permitted THEN [NewDelete EXCEPT !.pc = "done",
                                                               !.status = 403]
                     ELSE [NewDelete EXCEPT !.pc = "authorized", !.id = id]]
  /\ UNCHANGED <<roleTables, putUserReq>>

\* The select of the role's name and the built-in test.
DeleteLookup(r) ==
  /\ deleteReq[r].pc = "authorized"
  /\ deleteReq' = [deleteReq EXCEPT ![r] =
                     IF @.id \notin roleTables.roles
                     THEN [@ EXCEPT !.pc = "done", !.status = 404]
                     ELSE IF @.id \in BuiltInRoles
                     THEN [@ EXCEPT !.pc = "done", !.status = 400]
                     ELSE [@ EXCEPT !.pc = "found"]]
  /\ UNCHANGED <<roleTables, putUserReq>>

\* The count of user_roles rows; a failed count reads as null, (null || 0).
DeleteCount(r, ok) ==
  /\ deleteReq[r].pc = "found"
  /\ deleteReq' = [deleteReq EXCEPT ![r] =
                     IF ok /\ @.id \in roleTables.user_roles
                     THEN [@ EXCEPT !.pc = "done", !.status = 400]
                     ELSE [@ EXCEPT !.pc = "counted"]]
  /\ UNCHANGED <<roleTables, putUserReq>>

\* The delete of the role's role_permissions rows.
DeletePermissions(r, ok) ==
  /\ deleteReq[r].pc = "counted"
  /\ roleTables' = IF ok THEN [roleTables EXCEPT
                                 !.role_permissions = @ \ {deleteReq[r].id}]
                   ELSE roleTables
  /\ deleteReq' = [deleteReq EXCEPT ![r] =
                     IF ok
                     THEN [@ EXCEPT !.pc = "cleared",
                                    !.assigned = @ \/
                                      deleteReq[r].id \in roleTables.user_roles]
                     ELSE [@ EXCEPT !.pc = "done", !.status = 500]]
  /\ UNCHANGED putUserReq

\* The delete of the roles row; its user_roles and role_permissions rows go
\* with it (ON DELETE CASCADE).
DeleteRole(r, ok) ==
  /\ deleteReq[r].pc = "cleared"
  /\ roleTables' = IF ok THEN [roles |-> roleTables.roles \ {deleteReq[r].id},
                               role_permissions |->
                                 roleTables.role_permissions \ {deleteReq[r].id},
                               user_roles |->
                                 roleTables.user_roles \ {deleteReq[r].id}]
                   ELSE roleTables
  /\ deleteReq' = [deleteReq EXCEPT ![r] =
                     IF ok
                     THEN [@ EXCEPT !.pc = "done", !.status = 204,
                                    !.assigned = @ \/
                                      deleteReq[r].id \in roleTables.user_roles]
                     ELSE [@ EXCEPT !.pc = "done", !.status = 500]]
  /\ UNCHANGED putUserReq

\* PUT /api/admin/users/[id] with role_ids: the user's rows are removed first.
PutUserClear(role_ids) ==
  /\ putUserReq.pc = "idle"
  /\ roleTables' = [roleTables EXCEPT !.user_roles = {}]
  /\ putUserReq' = [pc |-> "cleared", role_ids |-> role_ids]
  /\ UNCHANGED deleteReq

\* Then the new rows are inserted; a role_id without its role is refused.
PutUserInsert(ok) ==
  /\ putUserReq.pc = "cleared"
  /\ roleTables' = IF ok /\ putUserReq.role_ids \subseteq roleTables.roles
                   THEN [roleTables EXCEPT !.user_roles = putUserReq.role_ids]
                   ELSE roleTables
  /\ putUserReq' = [pc |-> "idle", role_ids |-> {}]
  /\ UNCHANGED deleteReq

RoleInit ==
  /\ AgentInit
  /\ BugRoutesAtRest(0)
  /\ AdminRoutesAtRest("open")
  /\ \E assigned \in SUBSET RoleNames : RoleRoutesAtRest(assigned)

RoleNext ==
  \/ \E r \in RoleDeleters, id \in RoleNames, session, permitted \in BOOLEAN :
       DeleteAuthorize(r, id, session, permitted)
         /\ UNCHANGED <<agent, bugRoutes, adminRoutes>>
  \/ \E r \in RoleDeleters :
       DeleteLookup(r) /\ UNCHANGED <<agent, bugRoutes, adminRoutes>>
  \/ \E r \in RoleDeleters, ok \in BOOLEAN :
       DeleteCount(r, ok) /\ UNCHANGED <<agent, bugRoutes, adminRoutes>>
  \/ \E r \in RoleDeleters, ok \in BOOLEAN :
       DeletePermissions(r, ok) /\ UNCHANGED <<agent, bugRoutes, adminRoutes>>
  \/ \E r \in RoleDeleters, ok \in BOOLEAN :
       DeleteRole(r, ok) /\ UNCHANGED <<agent, bugRoutes, adminRoutes>>
  \/ \E role_ids \in SUBSET RoleNames :
       PutUserClear(role_ids) /\ UNCHANGED <<agent, bugRoutes, adminRoutes>>
  \/ \E ok \in BOOLEAN :
       PutUserInsert(ok) /\ UNCHANGED <<agent, bugRoutes, adminRoutes>>

RoleSpec == RoleInit /\ [][RoleNext]_vars

\* ------------------------------------------------------------------ claims
AllSame(seq) == \A i, j \in 1..Len(seq) : seq[i] = seq[j]

Smaller(a, b) == IF a < b THEN a ELSE b

\* The n most recent entries of seq, in arrival order.
MostRecent(seq, n) ==
  [i \in 1..Smaller(n, Len(seq)) |-> seq[Len(seq) - Smaller(n, Len(seq)) + i]]

IsEmptyState == retryState.outputs = <<>> /\ retryState.buildFailures = 0

Tracking == {"trackOutput", "trackBuildFailure"}

\* The timeout branch can fire only when the clock advances by more than
\* timeoutMs between the two clock reads of one trackOutput call.
TimeoutCanFire == \E d \in CallDelays : d > timeoutMs

\* The state right after the third of three identical trackOutput calls made
\* since the last reset: the history, emptied by a reset only, holds them.
ThirdIdentical ==
  /\ last.op = "trackOutput"
  /\ Len(retryState.outputs) = 3
  /\ AllSame(retryState.outputs)

\* C1 as stated: right after the third of three identical trackOutput calls an
\* automatic report has been triggered and the detection state is already
\* empty (outputs empty, buildFailures 0).
C1_Original ==
  ThirdIdentical => (last.reason # None /\ IsEmptyState)

\* C1 amended: the third of three identical trackOutput calls triggers exactly
\* one automatic report and the first two trigger none (a timed-out report
\* apart, which needs the clock to advance by more than timeoutMs inside the
\* call); right after the third call the history still holds the three outputs
\* and the report is in flight; the state is empty once a report has succeeded.
C1_Amended ==
  /\ ThirdIdentical =>
       /\ last.reason \in {OutputLoop, TimedOut}
       /\ retryState.outputs = Append(last.before.outputs, last.output)
       /\ inflight.auto >= 1
  /\ (last.op = "trackOutput" /\ Len(retryState.outputs) < 3) =>
       last.reason \in {None, TimedOut}
  /\ (last.op = "trackOutput" /\ last.reason = TimedOut) => TimeoutCanFire
  /\ (last.op = "autoDone" /\ last.ok) => IsEmptyState

C1_Witness ==
  /\ ThirdIdentical
  /\ last.reason = OutputLoop
  /\ retryState.outputs = <<"a", "a", "a">>
  /\ timeoutMs = DefaultTimeoutMs

\* C2 as stated: a trackOutput call made more than timeoutMs after the
\* previous tracked event triggers an automatic report with the reason
\* "Agent timed out".
C2_TimeoutOnLateOutput ==
  [][(/\ retryState.outputs # <<>>
      /\ now - retryState.lastActivity > timeoutMs
      /\ \E output \in Texts, d \in CallDelays : TrackOutput(output, d))
     => last'.reason = TimedOut]_vars

\* C3: counting from a reset, the first and the second trackBuildFailure call
\* trigger no automatic report and the third triggers one.
C3_ThirdBuildFailureReports ==
  last.op = "trackBuildFailure" =>
    /\ last.before.buildFailures = 0 =>
         (retryState.buildFailures = 1 /\ last.reason = None)
    /\ last.before.buildFailures = 1 =>
         (retryState.buildFailures = 2 /\ last.reason = None)
    /\ last.before.buildFailures = 2 =>
         (retryState.buildFailures = 3 /\ last.reason = BuildFailures)

C3_Witness ==
  /\ last.op = "trackBuildFailure"
  /\ last.before.buildFailures = 2
  /\ last.reason = BuildFailures
  /\ inflight.auto = 1

\* C4 as stated: a fourth trackBuildFailure call made without a manual reset
\* triggers no second automatic report (the counter having returned to 0).
C4_Original ==
  (last.op = "trackBuildFailure" /\ last.before.buildFailures >= 3) =>
    last.reason = None

\* C4 amended: a trackBuildFailure call that follows a successful automatic
\* report finds buildFailures at 0 and triggers no report; a call that finds
\* the counter still at 3 or more (the report in flight, or failed) triggers
\* another automatic report.
C4_Amended ==
  /\ (last.op = "trackBuildFailure" /\ last.after = "autoDone") =>
       /\ last.before.buildFailures = 0
       /\ retryState.buildFailures = 1
       /\ last.reason = None
  /\ (last.op = "trackBuildFailure" /\ last.before.buildFailures >= 3) =>
       last.reason = BuildFailures

C4_Witness ==
  /\ last.op = "trackBuildFailure"
  /\ last.after = "autoDone"
  /\ retryState.buildFailures = 1
  /\ last.reason = None

\* C5 as stated: once an automatic report attempt has completed, succeeded or
\* failed, the detection state is reset and below all thresholds.
C5_Original ==
  last.op = "autoDone" =>
    /\ IsEmptyState
    /\ Len(retryState.outputs) < 3
    /\ retryState.buildFailures < BuildFailureThreshold

\* C5 amended: an automatic report attempt that succeeded leaves the detection
\* state reset (outputs empty, buildFailures 0); one that failed leaves outputs
\* and buildFailures as they were.
C5_Amended ==
  last.op = "autoDone" =>
    IF last.ok
    THEN IsEmptyState
    ELSE /\ retryState.outputs = last.before.outputs
         /\ retryState.buildFailures = last.before.buildFailures

C5_Witness ==
  /\ last.op = "autoDone"
  /\ last.ok
  /\ last.before.buildFailures >= BuildFailureThreshold
  /\ last.before.outputs # <<>>
  /\ IsEmptyState

\* C6 as stated: the tracked event that immediately follows a successful
\* automatic report triggers no automatic report.
C6_Original ==
  (last.op \in Tracking /\ last.after = "autoDone") => last.reason = None

\* C6 amended: the tracked event that immediately follows a successful
\* automatic report finds the state reset and triggers neither an output-loop
\* nor a build-failure report; it triggers a timed-out report only when it is a
\* trackOutput call inside which more than timeoutMs elapses.
C6_Amended ==
  (last.op \in Tracking /\ last.after = "autoDone") =>
    /\ last.before = [outputs |-> <<>>, buildFailures |-> 0]
    /\ last.reason \in {None, TimedOut}
    /\ last.reason = TimedOut => (last.op = "trackOutput" /\ TimeoutCanFire)

C6_Witness ==
  /\ last.op = "trackOutput"
  /\ last.after = "autoDone"
  /\ last.reason = None
  /\ retryState.outputs = <<"a">>

\* C7: the outputs history never holds more than 5 entries.
C7_OutputsAtMostFive == Len(retryState.outputs) <= 5

C7_Witness ==
  /\ last.op = "trackOutput"
  /\ Len(last.before.outputs) = 5
  /\ Len(retryState.outputs) = 5

TwoInARow ==
  Len(retryState.outputs) = 2 /\ retryState.outputs[1] = retryState.outputs[2]

\* Two identical outputs and a distinct third tracked since the last reset.
TwoThenDistinct ==
  /\ Len(retryState.outputs) = 3
  /\ retryState.outputs[1] = retryState.outputs[2]
  /\ retryState.outputs[3] # retryState.outputs[2]

\* The three most recent outputs exist and are equal.
LastThreeEqual ==
  /\ Len(retryState.outputs) >= 3
  /\ AllSame(MostRecent(retryState.outputs, 3))

\* C9 as stated: a trackOutput call escalates for an output loop only when the
\* three most recent outputs are equal, and two identical outputs in a row, or
\* two identical outputs followed by a distinct third, trigger no automatic
\* report.
C9_Original ==
  last.op = "trackOutput" =>
    /\ last.reason = OutputLoop => LastThreeEqual
    /\ (TwoInARow \/ TwoThenDistinct) => last.reason = None

\* C9 amended: a trackOutput call escalates for an output loop only when the
\* three most recent outputs are equal; two identical outputs in a row, or two
\* identical outputs followed by a distinct third, trigger no output-loop
\* report, and a timed-out report only when more than timeoutMs elapses inside
\* the call.
C9_Amended ==
  last.op = "trackOutput" =>
    /\ last.reason = OutputLoop => LastThreeEqual
    /\ (TwoInARow \/ TwoThenDistinct) => last.reason \in {None, TimedOut}
    /\ last.reason = TimedOut => TimeoutCanFire

C9_Witness ==
  /\ last.op = "trackOutput"
  /\ retryState.outputs = <<"a", "a", "b">>
  /\ last.reason = None

\* C10 as stated: the single tracking call that follows resetRetryDetection()
\* triggers no automatic report.
C10_Original ==
  (last.op \in Tracking /\ last.after = "resetRetryDetection") =>
    last.reason = None

\* C10 amended: the single tracking call that follows resetRetryDetection()
\* triggers neither an output-loop nor a build-failure report; a trackBuildFailure
\* call triggers none at all, and a trackOutput call triggers a timed-out report
\* only when more than timeoutMs elapses inside the call.
C10_Amended ==
  (last.op \in Tracking /\ last.after = "resetRetryDetection") =>
    /\ last.reason \in {None, TimedOut}
    /\ last.op = "trackBuildFailure" => last.reason = None
    /\ last.reason = TimedOut => TimeoutCanFire

C10_Witness ==
  /\ last.op = "trackBuildFailure"
  /\ last.after = "resetRetryDetection"
  /\ retryState.buildFailures = 1
  /\ last.reason = None

\* Whether the sequence of parts holds the part.
Contains(parts, part) == \E i \in 1..Len(parts) : parts[i] = part

\* C11: a failed submission of an automatic report is caught inside the
\* escalation: the promise of autoReportBug resolves whatever the submission
\* outcome, and trackOutput and trackBuildFailure return normally.
C11_AutoFailureCaught ==
  /\ last.op = "autoDone" => last.outcome = "resolved"
  /\ last.op \in Tracking => last.outcome = "returned"

C11_Witness ==
  /\ last.op = "autoDone"
  /\ ~last.ok
  /\ last.outcome = "resolved"
  /\ last.before.buildFailures >= BuildFailureThreshold

\* C12: a manual reportBug whose submission fails rejects towards its
\* caller and never resolves with a result.
C12_ManualFailureRejects ==
  (last.op = "manualDone" /\ ~last.ok) =>
    /\ last.outcome = "rejected"
    /\ last.result = NoResult

C12_Witness ==
  /\ last.op = "manualDone"
  /\ ~last.ok
  /\ last.outcome = "rejected"

\* C13: a manual reportBug against a sink answering with identifier I
\* resolves with a result whose id is I and whose url contains I; for the
\* answer {id: "42"} the url is https://bugboard.ai/bugs/42.
C13_ManualResult ==
  (last.op = "manualDone" /\ last.ok) =>
    /\ last.outcome = "resolved"
    /\ last.result.id \in Ids
    /\ Contains(last.result.url, last.result.id)
    /\ last.result.id = "42" =>
         last.result.url = <<"https://bugboard.ai", "/bugs/", "42">>

C13_Witness ==
  /\ last.op = "manualDone"
  /\ last.ok
  /\ last.result.id = "42"
  /\ Contains(last.result.url, "42")

\* C14: a trackBuildFailure call that leaves buildFailures at 3 or more
\* triggers, within the call, an automatic report with the reason
\* "Multiple build failures detected"; one that leaves it below 3 triggers
\* none.
C14_ReportIffThreeOrMore ==
  last.op = "trackBuildFailure" =>
    /\ retryState.buildFailures >= 3 =>
         /\ last.reason = "Multiple build failures detected"
         /\ inflight.auto = last.pending + 1
    /\ retryState.buildFailures < 3 =>
         /\ last.reason = None
         /\ inflight.auto = last.pending

C14_Witness ==
  /\ last.op = "trackBuildFailure"
  /\ retryState.buildFailures = 4
  /\ last.reason = BuildFailures
  /\ inflight.auto = last.pending + 1

\* C15: resetRetryDetection leaves outputs empty and buildFailures 0 from
\* any state, and a second reset right after the first leaves the outputs
\* and buildFailures the first one left.
C15_ResetIdempotent ==
  last.op = "resetRetryDetection" =>
    /\ retryState.outputs = <<>>
    /\ retryState.buildFailures = 0
    /\ last.after = "resetRetryDetection" =>
         /\ retryState.outputs = last.before.outputs
         /\ retryState.buildFailures = last.before.buildFailures

C15_Witness ==
  /\ last.op = "resetRetryDetection"
  /\ last.after = "resetRetryDetection"
  /\ last.before.outputs = <<>>
  /\ retryState.outputs = <<>>
  /\ retryState.buildFailures = 0
\* The outputs joined in arrival order, oldest first.
RECURSIVE Joined(_)
Joined(seq) ==
  IF seq = <<>> THEN ""
  ELSE IF Len(seq) = 1 THEN seq[1]
  ELSE Joined(SubSeq(seq, 1, Len(seq) - 1))
         \o "\n\n--- Next Output ---\n\n" \o seq[Len(seq)]

\* C16: the request of an automatic report has input "Auto-detected issue",
\* logs equal to the output history at the moment of escalation, triggering
\* output included, joined in arrival order with the separator, and error
\* "Auto-reported: <reason>. Build failures: <count>" with the count of that
\* moment; the request is handed over inside the triggering call.
C16_AutoPayload ==
  /\ (last.op \in Tracking /\ last.reason # None) =>
       /\ last.request.input = "Auto-detected issue"
       /\ last.request.logs = Joined(retryState.outputs)
       /\ last.request.error =
            "Auto-reported: " \o last.reason \o ". Build failures: "
              \o ToString(retryState.buildFailures)
  /\ (last.op \in Tracking /\ last.reason = None) => last.request = NoRequest
  /\ last.op \notin Tracking => last.request = NoRequest

C16_Witness ==
  /\ last.op = "trackOutput"
  /\ retryState.outputs = <<"a", "b", "b", "b">>
  /\ retryState.buildFailures = 2
  /\ last.request.logs =
       "a\n\n--- Next Output ---\n\nb\n\n--- Next Output ---\n\nb\n\n--- Next Output ---\n\nb"
  /\ last.request.error =
       "Auto-reported: Agent stuck in output loop. Build failures: 2"

\* C17: one trackOutput call triggers at most one automatic report, and when
\* more than timeoutMs elapsed at its check the report carries the timeout
\* reason, also when the three most recent outputs are identical.
C17_TimeoutBeforeRepetition ==
  last.op = "trackOutput" =>
    /\ inflight.auto <= last.pending + 1
    /\ last.elapsed > timeoutMs =>
         /\ last.reason = TimedOut
         /\ inflight.auto = last.pending + 1
    /\ last.reason = OutputLoop => last.elapsed <= timeoutMs

C17_Witness ==
  /\ last.op = "trackOutput"
  /\ last.elapsed > timeoutMs
  /\ LastThreeEqual
  /\ last.reason = TimedOut
  /\ inflight.auto = last.pending + 1

\* C18: an automatic report in flight is not cancelled by resetRetryDetection
\* or by any other operation: only its own completion takes it off the
\* pending reports, and a successful completion resets the state then.
C18_NotCancelled ==
  /\ last.op = "autoDone" =>
       /\ inflight.auto = last.pending - 1
       /\ last.ok => IsEmptyState
  /\ last.op # "autoDone" => inflight.auto >= last.pending
  /\ last.op = "resetRetryDetection" => inflight.auto = last.pending

C18_Witness ==
  /\ last.op = "resetRetryDetection"
  /\ last.before.outputs # <<>>
  /\ inflight.auto >= 1
  /\ inflight.auto = last.pending

\* C19: buildFailures never decreases except through a reset, the manual
\* resetRetryDetection or the one after a successful automatic report:
\* trackOutput, trackBuildFailure, setTimeout, manual reportBug and a failed
\* automatic report never lower it.
C19_CounterOnlyResetLowers ==
  /\ retryState.buildFailures < last.before.buildFailures =>
       /\ last.op = "resetRetryDetection" \/ (last.op = "autoDone" /\ last.ok)
       /\ retryState.buildFailures = 0
  /\ last.op = "trackBuildFailure" =>
       retryState.buildFailures = last.before.buildFailures + 1
  /\ last.op \in {"trackOutput", "setTimeout", "reportBug", "manualDone"} =>
       retryState.buildFailures = last.before.buildFailures

C19_Witness ==
  /\ last.op = "trackOutput"
  /\ last.reason # None
  /\ last.before.buildFailures >= BuildFailureThreshold
  /\ retryState.buildFailures = last.before.buildFailures

\* C20: no automatic report starts by the passage of time alone: the pending
\* reports grow only inside a trackOutput or trackBuildFailure call that
\* escalates, so a silent agent is never flagged.
C20_NoReportFromTimeAlone ==
  /\ inflight.auto > last.pending =>
       /\ last.op \in Tracking
       /\ last.reason # None
  /\ last.op \notin Tracking => inflight.auto <= last.pending

C20_Witness ==
  /\ retryState.outputs # <<>>
  /\ timeoutMs = 100
  /\ now - retryState.lastActivity > timeoutMs
  /\ last.op = "trackOutput"
  /\ inflight.auto = 0
\* C21: every trackOutput and every trackBuildFailure call sets lastActivity
\* to the clock value it reads, setTimeout and a manual reportBug (its call
\* and its completion) leave lastActivity as it was, and apart from the
\* tracking calls only a reset, manual or after a successful automatic
\* report, changes it.
C21_LastActivityFrame ==
  /\ last.op \in Tracking => retryState.lastActivity = last.at
  /\ last.op \in {"setTimeout", "reportBug", "manualDone"} =>
       retryState.lastActivity = last.activity
  /\ last.op \notin Tracking =>
       \/ retryState.lastActivity = last.activity
       \/ /\ last.op = "resetRetryDetection"
                \/ (last.op = "autoDone" /\ last.ok)
          /\ retryState.lastActivity = last.at

C21_Witness ==
  /\ last.op = "trackBuildFailure"
  /\ last.at = Pause
  /\ retryState.lastActivity = Pause
  /\ retryState.outputs # <<>>
\* C22 as stated: for timeoutMs >= 0 no trackOutput call ever triggers a
\* report with the reason "Agent timed out".
C22_Original ==
  (last.op = "trackOutput" /\ timeoutMs >= 0) => last.reason # TimedOut

\* C22 amended: a trackOutput call triggers a report with the reason
\* "Agent timed out" exactly when more than timeoutMs elapsed inside the
\* call, between its refresh of lastActivity and its stuck check; the time
\* since the previous tracked event plays no part.
C22_Amended ==
  last.op = "trackOutput" =>
    (last.reason = TimedOut <=> last.elapsed > timeoutMs)

C22_Witness ==
  /\ last.op = "trackOutput"
  /\ timeoutMs = 100
  /\ last.elapsed = 0
  /\ last.at = Pause
  /\ Len(retryState.outputs) >= 2
  /\ last.reason = None

\* C23: automatic reports are not deduplicated: a tracking call that finds
\* its threshold crossed starts a submission of its own also while earlier
\* automatic reports are in flight, so more than one can be in flight.
C23_NotDeduplicated ==
  /\ (last.op = "trackBuildFailure" /\ retryState.buildFailures >= 3) =>
       inflight.auto = last.pending + 1
  /\ (last.op = "trackOutput" /\ LastThreeEqual) =>
       /\ last.reason \in {OutputLoop, TimedOut}
       /\ inflight.auto = last.pending + 1

C23_Witness ==
  /\ last.op = "trackOutput"
  /\ last.reason = OutputLoop
  /\ last.pending >= 1
  /\ Len(retryState.outputs) >= 4
  /\ inflight.auto >= 2

\* C24: a failed automatic report leaves outputs, buildFailures and
\* lastActivity exactly as they were, so a trackBuildFailure call that finds
\* buildFailures at 3 or more triggers a new automatic report.
C24_FailureKeepsState ==
  /\ (last.op = "autoDone" /\ ~last.ok) =>
       /\ retryState.outputs = last.before.outputs
       /\ retryState.buildFailures = last.before.buildFailures
       /\ retryState.lastActivity = last.activity
  /\ (last.op = "trackBuildFailure" /\ last.before.buildFailures >= 3) =>
       /\ last.reason = BuildFailures
       /\ inflight.auto = last.pending + 1

C24_Witness ==
  /\ last.op = "trackBuildFailure"
  /\ last.before.buildFailures >= 3
  /\ last.pending = 0
  /\ retryState.outputs = <<>>
  /\ last.reason = BuildFailures
  /\ inflight.auto = 1

\* C25: the reset after a successful automatic report discards what was
\* tracked while the report was in flight: right after the completion
\* outputs is empty and buildFailures is 0, whatever they were before it.
C25_SuccessDiscardsTracked ==
  (last.op = "autoDone" /\ last.ok) =>
    /\ retryState.outputs = <<>>
    /\ retryState.buildFailures = 0
    /\ retryState.lastActivity = last.at

C25_Witness ==
  /\ last.op = "autoDone"
  /\ last.ok
  /\ last.pending = 1
  /\ last.timeout = DefaultTimeoutMs
  /\ last.before.outputs = <<"a", "a", "a", "b">>
  /\ last.before.buildFailures = 1
  /\ retryState.outputs = <<>>
  /\ retryState.buildFailures = 0

\* C26: a manual reportBug, its call and its completion, successful or
\* failed, leaves outputs, buildFailures, lastActivity and timeoutMs as they
\* were; a successful automatic report is what resets the state.
C26_ManualKeepsState ==
  /\ last.op \in {"reportBug", "manualDone"} =>
       /\ last.reason = None
       /\ retryState.outputs = last.before.outputs
       /\ retryState.buildFailures = last.before.buildFailures
       /\ retryState.lastActivity = last.activity
       /\ timeoutMs = last.timeout
  /\ (last.op = "autoDone" /\ last.ok) => IsEmptyState

C26_Witness ==
  /\ last.op = "manualDone"
  /\ last.ok
  /\ retryState.buildFailures >= BuildFailureThreshold
  /\ Len(retryState.outputs) >= 3
  /\ timeoutMs = 100
\* C27 as stated: once the POST /:id/upvote requests on a bug have all been
\* answered, in any interleaving of their read and write steps, the bug's
\* upvotes has increased by exactly the number of requests answered 200.
C27_NoUpvoteLost ==
  (\A r \in Upvoters : upvoteReq[r].pc = "done") =>
    OrZero(upvotes.value) =
      OrZero(upvotes.atStart)
        + Cardinality({r \in Upvoters : upvoteReq[r].status = 200})

\* C28 as stated: a payout record is only ever created for a bug whose
\* status is 'resolved', also when PATCH /bugs/:id interleaves with the
\* payout request, and a request that is rejected creates no record.
C28_PayoutOnlyForResolved ==
  /\ \A p \in payouts : p.bugStatus = "resolved"
  /\ \A r \in PayoutRequesters :
       (payoutReq[r].pc = "done" /\ payoutReq[r].status # 201) =>
         ~\E p \in payouts : p.by = r

\* C29 as stated: DELETE /api/admin/roles/[id] never removes a built-in role
\* and never removes rows of a role that is assigned to a user, and a request
\* answered 401, 403 or 400 has left roles and role_permissions unchanged.
C29_ProtectedRolesKept ==
  /\ RoleNames \cap BuiltInRoles \subseteq roleTables.roles
  /\ RoleNames \cap BuiltInRoles \subseteq roleTables.role_permissions
  /\ \A r \in RoleDeleters : ~deleteReq[r].assigned
====
